---------------------------- MODULE Spec2Model ----------------------------
(***************************************************************************)
(* detkey: deterministic derivation of Ed25519 / RSA keys from a master    *)
(* password and a context string.                                          *)
(*                                                                         *)
(* The model covers internal/crypto/crypto.go (DeriveAndGenerateKey and    *)
(* the deterministicReader) and the parts of main() that call it.          *)
(*                                                                         *)
(* Cryptographic primitives of the libraries (Argon2id, HKDF-SHA256,       *)
(* SHA-256, Ed25519 and RSA generation) are modelled symbolically: the     *)
(* result of a primitive is the record of its inputs, so two results are   *)
(* equal exactly when the inputs are equal (collision freedom), and a byte *)
(* of a digest is the pair of the digest and the byte's index in it.       *)
(***************************************************************************)
EXTENDS Integers, Sequences, FiniteSets, TLC

(***************************************************************************)
(* Program constants.                                                      *)
(***************************************************************************)
\* len(dr.buffer): make([]byte, 8192)
BufSize == 8192
\* sha256.Size, the literal 32 of refillBuffer; also len(dr.seed)
DigestSize == 32
\* ed25519.SeedSize
SeedSize == 32
\* the key length asked of argon2.IDKey
MasterSeedLen == 32
\* argon2.IDKey(password, salt, 1, 64*1024, 4, 32)
ArgonTime == 1
ArgonMemory == 65536
ArgonThreads == 4
\* the compiled-in default salt
SALT == "a-unique-salt-for-detkey-v1"
\* the fallback seed of newDeterministicReader (31 bytes, byte 31 stays 0)
DefaultSeed == "default-seed-for-rsa-generation"

(***************************************************************************)
(* Bounds of the model.                                                    *)
(***************************************************************************)
\* Read calls issued on one reader in the reader specification
MaxReads == 3

(***************************************************************************)
(* The request sizes the reader specification draws from: nothing, one     *)
(* byte, a digest and a byte, and sizes around one whole buffer.           *)
(***************************************************************************)
ReadSizes == {0, 1, DigestSize + 1, BufSize - 1, BufSize, BufSize + 1}

VARIABLES
  rpc,      \* reader unit: "new" before newDeterministicReader, then "ready"
  upstream, \* reader unit: the io.Reader handed to newDeterministicReader
  dr,       \* reader unit: the deterministicReader (seed, counter, buffer, bufPos)
  out,      \* reader unit: every byte returned by Read so far, in order
  hashed,   \* reader unit: the counter values hashed by refillBuffer, in order
  requests, \* reader unit: the lengths asked of Read so far, in order
  lastRead, \* reader unit: [n, err] returned by the last Read call, and its copies
  calls,    \* derivations: the state of each call of DeriveAndGenerateKey
  m         \* one run of main(): flags, environment, locals, output, exit

readerVars == <<rpc, upstream, dr, out, hashed, requests, lastRead>>

vars == <<rpc, upstream, dr, out, hashed, requests, lastRead, calls, m>>

(***************************************************************************)
(* Byte streams of the libraries.                                          *)
(***************************************************************************)
\* An io.Reader over a key-derivation stream: the stream's identity, the
\* read cursor and the number of bytes the stream can give in all.
Stream(id, limit) == [id |-> id, pos |-> 0, limit |-> limit]

\* The bytes [from, from+len) of stream id.
Block(id, from, len) == [src |-> "stream", id |-> id, from |-> from, len |-> len]

\* The bytes of a literal string, zero padded to len bytes.
Literal(s, len) == [src |-> "literal", id |-> s, from |-> 0, len |-> len]

Min(a, b) == IF a < b THEN a ELSE b

\* io.ReadFull(r, buf) with len(buf) = n: reads until buf is full or the
\* stream ends; err is set when fewer than n bytes were read.
ReadFull(r, n) ==
  LET got == Min(n, r.limit - r.pos)
  IN  [buf |-> Block(r.id, r.pos, got),
       n   |-> got,
       err |-> got < n,
       r   |-> [r EXCEPT !.pos = r.pos + got]]

(***************************************************************************)
(* SHA-256 of seed followed by the eight counter bytes, and its bytes.     *)
(***************************************************************************)
\* the counter bytes written most significant byte first
CounterBytes_bigEndian(c) ==
  << (((c \div 16777216) \div 16777216) \div 256) % 256,
     ((c \div 16777216) \div 16777216) % 256,
     ((c \div 16777216) \div 65536) % 256,
     ((c \div 16777216) \div 256) % 256,
     (c \div 16777216) % 256,
     (c \div 65536) % 256,
     (c \div 256) % 256,
     c % 256 >>

\* []byte{byte(c), byte(c >> 8), ..., byte(c >> 56)}
CounterBytes(c) ==
  << c % 256,
     (c \div 256) % 256,
     (c \div 65536) % 256,
     (c \div 16777216) % 256,
     ((c \div 16777216) \div 256) % 256,
     ((c \div 16777216) \div 65536) % 256,
     ((c \div 16777216) \div 16777216) % 256,
     (((c \div 16777216) \div 16777216) \div 256) % 256 >>

\* hasher.Reset(); hasher.Write(seed); hasher.Write(counter bytes); Sum(nil)
Sha256(seed, ctr) == [seed |-> seed, ctr |-> ctr]

\* chunk[j]
DigestByte(d, j) == <<d, j>>

(***************************************************************************)
(* deterministicReader.                                                    *)
(*                                                                         *)
(* dr.buffer is held digest by digest: refillBuffer only ever writes whole *)
(* digests at offsets that are multiples of 32, so buffer[i + 1] is the    *)
(* digest at bytes [32i, 32i + 32) and byte k of the buffer is byte k % 32 *)
(* of buffer[k \div 32 + 1].  A digest slot never written holds ZeroChunk. *)
(***************************************************************************)
ZeroChunk == [seed |-> "zero", ctr |-> <<>>]

\* len(dr.buffer)
BufLen(d) == Len(d.buffer) * DigestSize

\* dr.buffer[from:to]
BufSlice(d, from, to) ==
  [k \in 1..(to - from) |->
     DigestByte(d.buffer[((from + k - 1) \div DigestSize) + 1],
                (from + k - 1) % DigestSize)]

\* a refill that starts the counter again at 0
refillBuffer_resets(d) ==
  LET rounds == BufLen(d) \div DigestSize
  IN  [dr  |-> [d EXCEPT !.buffer = [i \in 1..rounds |->
                                       Sha256(d.seed, CounterBytes(i - 1))],
                         !.counter = rounds,
                         !.bufPos = 0],
       log |-> [i \in 1..rounds |-> i - 1]]

\* for i := 0; i < len(dr.buffer)/32; i++ { ... dr.counter++ }; dr.bufPos = 0
\* Iteration i hashes seed and the counter bytes of counter + i and copies the
\* digest to buffer[32i .. 32i+32); the loop is summed up as one assignment.
\* Returns the reader and the counter values hashed, in order.
refillBuffer(d) ==
  LET rounds == BufLen(d) \div DigestSize
  IN  [dr  |-> [d EXCEPT !.buffer = [i \in 1..rounds |->
                                       Sha256(d.seed,
                                              CounterBytes(d.counter + (i - 1)))],
                         !.counter = d.counter + rounds,
                         !.bufPos = 0],
       log |-> [i \in 1..rounds |-> d.counter + (i - 1)]]

\* a constructor that reads the seed, then reads the upstream stream again
newDeterministicReader_rereads(hkdf) ==
  LET rd   == ReadFull(hkdf, DigestSize)
      rd2  == ReadFull(rd.r, DigestSize)
      seed == IF rd2.err THEN Literal(DefaultSeed, DigestSize) ELSE rd.buf
      d0   == [seed    |-> seed,
               counter |-> 0,
               buffer  |-> [i \in 1..(BufSize \div DigestSize) |-> ZeroChunk],
               bufPos  |-> 0]
      f    == refillBuffer(d0)
  IN  [dr |-> f.dr, hkdf |-> rd2.r, log |-> f.log]

\* a constructor that seeds the reader from the system's random source
\* when the upstream read fails
newDeterministicReader_randomFallback(hkdf) ==
  LET rd   == ReadFull(hkdf, DigestSize)
      seed == IF rd.err THEN Block([kdf |-> "crypto/rand"], 0, DigestSize) ELSE rd.buf
      d0   == [seed    |-> seed,
               counter |-> 0,
               buffer  |-> [i \in 1..(BufSize \div DigestSize) |-> ZeroChunk],
               bufPos  |-> 0]
      f    == refillBuffer(d0)
  IN  [dr |-> f.dr, hkdf |-> rd.r, log |-> f.log]

\* a constructor that leaves the buffer unfilled and marks it used up, so that
\* the first Read fills it
newDeterministicReader_noPrefill(hkdf) ==
  LET rd   == ReadFull(hkdf, DigestSize)
      seed == IF rd.err THEN Literal(DefaultSeed, DigestSize) ELSE rd.buf
  IN  [dr   |-> [seed    |-> seed,
                 counter |-> 0,
                 buffer  |-> [i \in 1..(BufSize \div DigestSize) |-> ZeroChunk],
                 bufPos  |-> BufSize],
       hkdf |-> rd.r,
       log  |-> <<>>]

\* newDeterministicReader(hkdf): the reader, the upstream reader after the
\* call and the counters hashed by the pre-fill
newDeterministicReader(hkdf) ==
  LET rd   == ReadFull(hkdf, DigestSize)
      seed == IF rd.err THEN Literal(DefaultSeed, DigestSize) ELSE rd.buf
      d0   == [seed    |-> seed,
               counter |-> 0,
               buffer  |-> [i \in 1..(BufSize \div DigestSize) |-> ZeroChunk],
               bufPos  |-> 0]
      f    == refillBuffer(d0)
  IN  [dr |-> f.dr, hkdf |-> rd.r, log |-> f.log]

\* for totalRead < len(p) { ... }
\* copies lists the toCopy of every iteration, in order.
RECURSIVE ReadLoop(_, _, _, _, _, _)
ReadLoop(d, lenp, totalRead, p, log, copies) ==
  IF totalRead < lenp
  THEN LET f         == IF d.bufPos >= BufLen(d)
                        THEN refillBuffer(d)
                        ELSE [dr |-> d, log |-> <<>>]
           d1        == f.dr
           remaining == BufLen(d1) - d1.bufPos
           toCopy    == Min(lenp - totalRead, remaining)
       IN  ReadLoop([d1 EXCEPT !.bufPos = d1.bufPos + toCopy],
                    lenp,
                    totalRead + toCopy,
                    p \o BufSlice(d1, d1.bufPos, d1.bufPos + toCopy),
                    log \o f.log,
                    Append(copies, toCopy))
  ELSE [dr |-> d, p |-> p, n |-> totalRead, err |-> FALSE, log |-> log,
        copies |-> copies]

\* a Read that refills first whenever the request exceeds what is left in the
\* buffer, dropping the bytes left over
Read_dropsLeftover(d, lenp) ==
  IF lenp > BufLen(d) - d.bufPos
  THEN LET f == refillBuffer(d) IN ReadLoop(f.dr, lenp, 0, <<>>, f.log, <<>>)
  ELSE ReadLoop(d, lenp, 0, <<>>, <<>>, <<>>)

\* a Read that returns what the buffer holds and never refills while copying:
\* a request longer than the rest of the buffer comes back short
Read_stopsAtBufferEnd(d, lenp) ==
  LET f == IF lenp > 0 /\ d.bufPos >= BufLen(d)
           THEN refillBuffer(d)
           ELSE [dr |-> d, log |-> <<>>]
  IN  ReadLoop(f.dr, Min(lenp, BufLen(f.dr) - f.dr.bufPos), 0, <<>>, f.log, <<>>)

\* a Read that refills as soon as it has emptied the buffer, before returning
Read_eagerRefill(d, lenp) ==
  LET r == ReadLoop(d, lenp, 0, <<>>, <<>>, <<>>)
  IN  IF lenp > 0 /\ r.dr.bufPos >= BufLen(r.dr)
      THEN LET f == refillBuffer(r.dr)
           IN  [r EXCEPT !.dr = f.dr, !.log = r.log \o f.log]
      ELSE r

\* (dr *deterministicReader) Read(p) with len(p) = lenp
Read(d, lenp) == ReadLoop(d, lenp, 0, <<>>, <<>>, <<>>)

(***************************************************************************)
(* Library primitives of the derivation, as constructors of their inputs.  *)
(***************************************************************************)
\* hkdf.New over SHA-256 gives at most 255 hash blocks
HkdfLimit == 255 * DigestSize

\* argon2.IDKey(password, salt, time, memory, threads, keyLen)
Argon2IDKey(password, salt, time, memory, threads, keyLen) ==
  [kdf |-> "argon2id", password |-> password, salt |-> salt,
   time |-> time, memory |-> memory, threads |-> threads, keyLen |-> keyLen]

\* hkdf.New(sha256.New, secret, salt, info): a reader at offset 0
HkdfNew(secret, salt, info) ==
  Stream([kdf |-> "hkdf-sha256", secret |-> secret, salt |-> salt, info |-> info],
         HkdfLimit)

\* ed25519.NewKeyFromSeed(seed)
Ed25519NewKeyFromSeed(seed) == [type |-> "ed25519", seed |-> seed]

\* the nil error, the nil key
NoErr == <<>>
NilKey == [type |-> "nil"]

(***************************************************************************)
(* rsa.GenerateKey(random, bits).  The library is not part of the          *)
(* repository; it is modelled as a fixed function of the bytes it reads:   *)
(* it asks the reader for candidates of bits/16 bytes (a prime of bits/2   *)
(* bits), its primality test turns down Rejects candidates before each of  *)
(* the two primes, and the key is made of the two accepted candidates.     *)
(***************************************************************************)
\* candidates turned down before each prime
Rejects == 32

\* k successive calls io.ReadFull(random, p) with len(p) = candLen, k >= 1,
\* stopping at the first error: the reader afterwards, the bytes of the last
\* call, the bytes served in all and the error (the calls are made in order;
\* the recursion halves k to stay shallow)
RECURSIVE ReadCandidates(_, _, _)
ReadCandidates(d, candLen, k) ==
  IF k = 1
  THEN LET r == Read(d, candLen)
       IN  [dr |-> r.dr, last |-> r.p, served |-> r.n,
            err |-> r.err \/ r.n < candLen]
  ELSE LET a == ReadCandidates(d, candLen, k \div 2)
       IN  IF a.err
           THEN a
           ELSE LET b == ReadCandidates(a.dr, candLen, k - (k \div 2))
                IN  [b EXCEPT !.served = a.served + b.served]

RsaGenerateKey(d, bits) ==
  LET p == ReadCandidates(d, bits \div 16, Rejects + 1)
  IN  IF p.err
      THEN [key |-> NilKey, err |-> <<"read error">>, dr |-> p.dr,
            served |-> p.served]
      ELSE LET q == ReadCandidates(p.dr, bits \div 16, Rejects + 1)
           IN  IF q.err
               THEN [key |-> NilKey, err |-> <<"read error">>, dr |-> q.dr,
                     served |-> p.served + q.served]
               ELSE [key    |-> [type |-> "rsa", bits |-> bits,
                                 primes |-> <<p.last, q.last>>, E |-> 65537],
                     err    |-> NoErr,
                     dr     |-> q.dr,
                     served |-> p.served + q.served]

\* the modulus and the private exponent of an RSA key, from its primes
Modulus(key) == [product |-> key.primes]
PrivateExponent(key) == [inverse |-> key.E, primes |-> key.primes]

(***************************************************************************)
(* DeriveAndGenerateKey(password, salt, context, keyType), step by step.   *)
(* A call is a record: its arguments, its locals, the values returned and  *)
(* what it did (readers constructed, generator runs, bits asked, bytes the *)
(* reader served, the first prime while the generator is between its two   *)
(* primes, whether another call took a step while this one was under way). *)
(***************************************************************************)
NoSeed == [kdf |-> "none"]
NoStream == Stream("none", 0)
\* no reader constructed yet
NoReader == [seed |-> Literal("", 0), counter |-> 0, buffer |-> <<>>, bufPos |-> 0]

NewCall(password, salt, context, keyType) ==
  [pc |-> "argon2",
   password |-> password, salt |-> salt, context |-> context, keyType |-> keyType,
   masterSeed |-> NoSeed, hkdfReader |-> NoStream, reader |-> NoReader,
   privateKey |-> NilKey, err |-> NoErr,
   retKey |-> NilKey, retErr |-> NoErr,
   readers |-> 0, gens |-> 0, bits |-> 0, served |-> 0, readerSeed |-> NoSeed,
   firstPrime |-> <<>>, overlapped |-> FALSE]

\* masterSeed := argon2.IDKey(password, salt, 1, 64*1024, 4, 32)
Stretch(c) ==
  [c EXCEPT !.masterSeed = Argon2IDKey(c.password, c.salt, ArgonTime, ArgonMemory,
                                       ArgonThreads, MasterSeedLen),
            !.pc = "hkdf"]

\* an expansion that leaves the context out of the info label
Expand_withoutContext(c) ==
  [c EXCEPT !.hkdfReader = HkdfNew(c.masterSeed, c.salt, ""),
            !.pc = "switch"]

\* an expansion whose info label names the key type after the context
Expand_withKeyType(c) ==
  [c EXCEPT !.hkdfReader = HkdfNew(c.masterSeed, c.salt, <<c.context, c.keyType>>),
            !.pc = "switch"]

\* hkdfReader := hkdf.New(sha256.New, masterSeed, salt, []byte(context))
Expand(c) ==
  [c EXCEPT !.hkdfReader = HkdfNew(c.masterSeed, c.salt, c.context),
            !.pc = "switch"]

\* hkdf.New where the reader it returns fails after limit bytes
ExpandFailing(c, limit) ==
  [c EXCEPT !.hkdfReader = [HkdfNew(c.masterSeed, c.salt, c.context)
                              EXCEPT !.limit = limit],
            !.pc = "switch"]

\* a reader whose counter lives outside the call: it starts where the readers
\* of the calls already returned stopped
NewReader_sharedCounter(c, bits) ==
  LET r     == newDeterministicReader(c.hkdfReader)
      used  == {j \in DOMAIN calls : calls[j].pc = "done" /\ calls[j].readers > 0}
      start == IF used = {} THEN 0 ELSE BufSize \div DigestSize
      d     == refillBuffer([r.dr EXCEPT !.counter = start]).dr
  IN  [c EXCEPT !.reader = d, !.hkdfReader = r.hkdf,
                !.readers = c.readers + 1, !.readerSeed = r.dr.seed,
                !.bits = bits, !.pc = "generate"]

\* deterministicReader := newDeterministicReader(hkdfReader), for bits
NewReader(c, bits) ==
  LET r == newDeterministicReader(c.hkdfReader)
  IN  [c EXCEPT !.reader = r.dr, !.hkdfReader = r.hkdf,
                !.readers = c.readers + 1, !.readerSeed = r.dr.seed,
                !.bits = bits, !.pc = "generate"]

\* an ed25519 case that drops the error of io.ReadFull and makes the key of
\* whatever the seed buffer holds
Ed25519Case_ignoresReadError(c) ==
  LET rd == ReadFull(c.hkdfReader, SeedSize)
  IN  [c EXCEPT !.hkdfReader = rd.r,
                !.privateKey = Ed25519NewKeyFromSeed(rd.buf),
                !.pc = "check"]

\* case "ed25519": io.ReadFull(hkdfReader, finalSeed); ed25519.NewKeyFromSeed
Ed25519Case(c) ==
  LET rd == ReadFull(c.hkdfReader, SeedSize)
  IN  IF rd.err
      THEN [c EXCEPT !.hkdfReader = rd.r, !.err = <<"EOF">>,
                     !.retKey = NilKey,
                     !.retErr = <<"unable to read final seed from HKDF", <<"EOF">> >>,
                     !.pc = "done"]
      ELSE [c EXCEPT !.hkdfReader = rd.r,
                     !.privateKey = Ed25519NewKeyFromSeed(rd.buf),
                     !.pc = "check"]

\* a default case that falls back to Ed25519
DefaultCase_fallsBack(c) == Ed25519Case(c)

\* default: return nil, fmt.Errorf("unsupported key type: %s", keyType)
DefaultCase(c) ==
  [c EXCEPT !.retKey = NilKey,
            !.retErr = <<"unsupported key type", c.keyType>>,
            !.pc = "done"]

\* a switch whose rsa4096 case was copied from rsa2048 with its bit length
Switch_copiedCase(c) ==
  CASE c.keyType = "rsa2048" -> NewReader(c, 2048)
    [] c.keyType = "rsa4096" -> NewReader(c, 2048)
    [] c.keyType = "ed25519" -> Ed25519Case(c)
    [] OTHER -> DefaultCase(c)

\* switch keyType { ... }
Switch(c) ==
  CASE c.keyType = "rsa2048" -> NewReader(c, 2048)
    [] c.keyType = "rsa4096" -> NewReader(c, 4096)
    [] c.keyType = "ed25519" -> Ed25519Case(c)
    [] OTHER -> DefaultCase(c)

\* privateKey, err = rsa.GenerateKey(deterministicReader, bits)
Generate(c) ==
  LET g == RsaGenerateKey(c.reader, c.bits)
  IN  [c EXCEPT !.privateKey = g.key, !.err = g.err, !.reader = g.dr,
                !.gens = c.gens + 1, !.served = c.served + g.served,
                !.pc = "check"]

\* rsa.GenerateKey up to its first prime: the candidates are read
FirstPrime(c) ==
  LET p == ReadCandidates(c.reader, c.bits \div 16, Rejects + 1)
  IN  IF p.err
      THEN [c EXCEPT !.privateKey = NilKey, !.err = <<"read error">>,
                     !.reader = p.dr, !.gens = c.gens + 1,
                     !.served = c.served + p.served, !.pc = "check"]
      ELSE [c EXCEPT !.firstPrime = p.last, !.reader = p.dr,
                     !.served = c.served + p.served, !.pc = "generate-q"]

\* a second prime read from the reader of another call that is between its
\* primes, as if the reader were shared by the calls of the process
SecondPrime_sharedReader(c) ==
  LET others == {j \in DOMAIN calls :
                   calls[j].pc = "generate-q" /\ calls[j].reader # c.reader}
      d      == IF others = {} THEN c.reader
                ELSE calls[CHOOSE j \in others : TRUE].reader
      q      == ReadCandidates(d, c.bits \div 16, Rejects + 1)
  IN  [c EXCEPT !.privateKey = [type |-> "rsa", bits |-> c.bits,
                                primes |-> <<c.firstPrime, q.last>>,
                                E |-> 65537],
                !.err = NoErr, !.reader = q.dr, !.gens = c.gens + 1,
                !.served = c.served + q.served, !.firstPrime = <<>>,
                !.pc = "check"]

\* rsa.GenerateKey from its first prime on: the second prime and the key
SecondPrime(c) ==
  LET q == ReadCandidates(c.reader, c.bits \div 16, Rejects + 1)
  IN  IF q.err
      THEN [c EXCEPT !.privateKey = NilKey, !.err = <<"read error">>,
                     !.reader = q.dr, !.gens = c.gens + 1,
                     !.served = c.served + q.served, !.firstPrime = <<>>,
                     !.pc = "check"]
      ELSE [c EXCEPT !.privateKey = [type |-> "rsa", bits |-> c.bits,
                                     primes |-> <<c.firstPrime, q.last>>,
                                     E |-> 65537],
                     !.err = NoErr, !.reader = q.dr, !.gens = c.gens + 1,
                     !.served = c.served + q.served, !.firstPrime = <<>>,
                     !.pc = "check"]

\* privateKey, err = rsa.GenerateKey(deterministicReader, bits) where the
\* library reports an error: no key, the error, the reader left as it was
GenerateFailing(c) ==
  [c EXCEPT !.privateKey = NilKey, !.err = <<"rsa: generation failed">>,
            !.gens = c.gens + 1, !.pc = "check"]

\* an error check that goes back to the switch for another attempt
Return_retries(c) ==
  IF c.err # NoErr
  THEN [c EXCEPT !.err = NoErr, !.pc = "switch"]
  ELSE [c EXCEPT !.retKey = c.privateKey, !.retErr = NoErr,
                 !.reader = NoReader, !.pc = "done"]

\* if err != nil { return nil, ... }; return privateKey, nil
\* (the reader is a local of the call and is gone once it returns)
Return(c) ==
  IF c.err # NoErr
  THEN [c EXCEPT !.retKey = NilKey,
                 !.retErr = <<"unable to generate key", c.keyType, c.err>>,
                 !.reader = NoReader, !.pc = "done"]
  ELSE [c EXCEPT !.retKey = c.privateKey, !.retErr = NoErr,
                 !.reader = NoReader, !.pc = "done"]

\* the call from the switch on: the generator where the case asks for it,
\* then the error check and the return
Finish(c) == IF c.pc = "check" THEN Return(c) ELSE c

Run(c) == Finish(IF c.pc = "generate" THEN Generate(c) ELSE c)

\* the whole call
DeriveAndGenerateKey(password, salt, context, keyType) ==
  Run(Switch(Expand(Stretch(NewCall(password, salt, context, keyType)))))

(***************************************************************************)
(* Derivations: two calls of DeriveAndGenerateKey, each with any           *)
(* arguments, made one after the other as the tests and main make them.    *)
(***************************************************************************)
CallIds == {1, 2}

Passwords == {"pw1", "pw2"}
Salts == {SALT, "other-salt"}
Contexts == {"ssh/prod/v1", "ssh/prod/v2"}
SupportedKeyTypes == {"ed25519", "rsa2048", "rsa4096"}
KeyTypes == SupportedKeyTypes \cup {"rsa8192", "RSA2048"}

\* a call not made yet
IdleCall == [NewCall("", "", "", "") EXCEPT !.pc = "idle"]

ReaderIdle ==
  /\ rpc = "new"
  /\ upstream = Stream("none", 0)
  /\ dr = NoReader
  /\ out = <<>>
  /\ hashed = <<>>
  /\ requests = <<>>
  /\ lastRead = [n |-> 0, err |-> FALSE, copies |-> <<>>]

\* no run of main
NoMain == [pc |-> "none"]

Init ==
  /\ calls = [i \in CallIds |-> IdleCall]
  /\ ReaderIdle
  /\ m = NoMain

Advance(i, c) ==
  /\ calls' = [calls EXCEPT ![i] = c]
  /\ UNCHANGED <<readerVars, m>>

\* DeriveAndGenerateKey(password, salt, context, keyType) is entered
Call(i, password, salt, context, keyType) ==
  /\ calls[i].pc = "idle"
  /\ \A j \in CallIds : j < i => calls[j].pc = "done"
  /\ Advance(i, NewCall(password, salt, context, keyType))

StretchStep(i) == calls[i].pc = "argon2" /\ Advance(i, Stretch(calls[i]))

ExpandStep(i) == calls[i].pc = "hkdf" /\ Advance(i, Expand(calls[i]))

SwitchStep(i) == calls[i].pc = "switch" /\ Advance(i, Switch(calls[i]))

GenerateStep(i) == calls[i].pc = "generate" /\ Advance(i, Generate(calls[i]))

ReturnStep(i) == calls[i].pc = "check" /\ Advance(i, Return(calls[i]))

Next ==
  \E i \in CallIds :
    \/ \E password \in Passwords, salt \in Salts, context \in Contexts,
          keyType \in KeyTypes : Call(i, password, salt, context, keyType)
    \/ StretchStep(i)
    \/ ExpandStep(i)
    \/ SwitchStep(i)
    \/ GenerateStep(i)
    \/ ReturnStep(i)

Spec == Init /\ [][Next]_vars

(***************************************************************************)
(* One derivation with failing libraries: the reader returned by hkdf.New  *)
(* may fail before it has given 32 bytes (the code handles the error of    *)
(* io.ReadFull in the ed25519 case and in newDeterministicReader), and     *)
(* rsa.GenerateKey may report an error (the code checks err after the      *)
(* switch).                                                                *)
(***************************************************************************)
\* the bytes a failing HKDF reader gives before it fails
FailingLimits == {0, SeedSize \div 2}

ExpandFailingStep(i) ==
  /\ calls[i].pc = "hkdf"
  /\ \E limit \in FailingLimits : Advance(i, ExpandFailing(calls[i], limit))

GenerateFailingStep(i) ==
  calls[i].pc = "generate" /\ Advance(i, GenerateFailing(calls[i]))

NextFaults ==
  \/ \E password \in Passwords, salt \in Salts, context \in Contexts,
        keyType \in KeyTypes : Call(1, password, salt, context, keyType)
  \/ StretchStep(1)
  \/ ExpandStep(1)
  \/ ExpandFailingStep(1)
  \/ SwitchStep(1)
  \/ GenerateStep(1)
  \/ GenerateFailingStep(1)
  \/ ReturnStep(1)

SpecFaults == Init /\ [][NextFaults]_vars

(***************************************************************************)
(* Two derivations in one process, their steps interleaved in any order:   *)
(* a call may be entered while the other is under way, and the generator   *)
(* of a call can be overtaken between its two primes.                      *)
(***************************************************************************)
ConcurrentPasswords == {"pw1"}
ConcurrentSalts == {SALT}
ConcurrentKeyTypes == {"ed25519", "rsa2048", "rsa4096"}

UnderWay(c) == c.pc \notin {"idle", "done"}

\* call i moves to c; the other calls under way have been overtaken
Interleave(i, c) ==
  /\ calls' = [j \in CallIds |->
                IF j = i THEN c
                ELSE IF UnderWay(calls[j])
                     THEN [calls[j] EXCEPT !.overlapped = TRUE]
                     ELSE calls[j]]
  /\ UNCHANGED <<readerVars, m>>

Enter(i, password, salt, context, keyType) ==
  /\ calls[i].pc = "idle"
  /\ Interleave(i, NewCall(password, salt, context, keyType))

StretchConcurrent(i) ==
  calls[i].pc = "argon2" /\ Interleave(i, Stretch(calls[i]))

ExpandConcurrent(i) ==
  calls[i].pc = "hkdf" /\ Interleave(i, Expand(calls[i]))

SwitchConcurrent(i) ==
  calls[i].pc = "switch" /\ Interleave(i, Switch(calls[i]))

FirstPrimeConcurrent(i) ==
  calls[i].pc = "generate" /\ Interleave(i, FirstPrime(calls[i]))

SecondPrimeConcurrent(i) ==
  calls[i].pc = "generate-q" /\ Interleave(i, SecondPrime(calls[i]))

ReturnConcurrent(i) ==
  calls[i].pc = "check" /\ Interleave(i, Return(calls[i]))

NextConcurrent ==
  \E i \in CallIds :
    \/ \E password \in ConcurrentPasswords, salt \in ConcurrentSalts,
          context \in Contexts, keyType \in ConcurrentKeyTypes :
            Enter(i, password, salt, context, keyType)
    \/ StretchConcurrent(i)
    \/ ExpandConcurrent(i)
    \/ SwitchConcurrent(i)
    \/ FirstPrimeConcurrent(i)
    \/ SecondPrimeConcurrent(i)
    \/ ReturnConcurrent(i)

SpecConcurrent == Init /\ [][NextConcurrent]_vars

(***************************************************************************)
(* main().  Texts the program looks into (the context, the bytes of        *)
(* standard input, passwords) are sequences of characters; "LF" and "CR"   *)
(* stand for the line feed and the carriage return, and "CERT" for the     *)
(* bytes of a PEM certificate.  m.asked counts the times a password was    *)
(* asked for: prompted for at the terminal or read from standard input.    *)
(***************************************************************************)
\* isValidKeyType(keyType)
isValidKeyType(keyType) ==
  LET validTypes == <<"ed25519", "rsa2048", "rsa4096">>
  IN  \E t \in 1..Len(validTypes) : validTypes[t] = keyType

\* containsSubstring(s, substr)
containsSubstring(s, substr) ==
  IF Len(substr) > Len(s)
  THEN FALSE
  ELSE \E i \in 0..(Len(s) - Len(substr)) :
         SubSeq(s, i + 1, i + Len(substr)) = substr

\* a containsString that looks for substr anywhere in s
containsString_anywhere(s, substr) == containsSubstring(s, substr)

\* containsString(s, substr)
containsString(s, substr) ==
  /\ Len(s) >= Len(substr)
  /\ \/ s = substr
     \/ /\ Len(s) > Len(substr)
        /\ \/ SubSeq(s, 1, Len(substr) + 1) = substr \o <<"/">>
           \/ SubSeq(s, Len(s) - Len(substr), Len(s)) = <<"/">> \o substr
           \/ containsSubstring(s, <<"/">> \o substr \o <<"/">>)

\* determineOutputFormat(format, context, keyType)
determineOutputFormat(format, context, keyType) ==
  IF format # "auto" THEN format
  ELSE IF containsString(context, <<"m", "t", "l", "s">>) THEN "pem"
  ELSE IF containsString(context, <<"s", "s", "h">>) THEN "ssh"
  ELSE IF keyType = "rsa2048" \/ keyType = "rsa4096" THEN "pem"
  ELSE "ssh"

\* readLine(reader): the line, the error and the input left unread
RECURSIVE readLineLoop(_, _)
readLineLoop(input, line) ==
  IF input = <<>>
  THEN IF Len(line) > 0
       THEN [line |-> line, err |-> NoErr, rest |-> <<>>]
       ELSE [line |-> <<>>, err |-> <<"EOF">>, rest |-> <<>>]
  ELSE IF Head(input) = "LF"
       THEN [line |-> line, err |-> NoErr, rest |-> Tail(input)]
       ELSE IF Head(input) # "CR"
            THEN readLineLoop(Tail(input), Append(line, Head(input)))
            ELSE readLineLoop(Tail(input), line)

\* a readLine that takes the line up to the first line feed and drops one
\* carriage return at its end only
readLine_trimsLineEnd(input) ==
  LET ends == {k \in 1..Len(input) : input[k] = "LF"}
      stop == IF ends = {} THEN Len(input) + 1
              ELSE CHOOSE k \in ends : \A j \in ends : k <= j
      raw  == SubSeq(input, 1, stop - 1)
      line == IF raw # <<>> /\ raw[Len(raw)] = "CR"
              THEN SubSeq(raw, 1, Len(raw) - 1)
              ELSE raw
  IN  IF ends = {} /\ line = <<>>
      THEN [line |-> <<>>, err |-> <<"EOF">>, rest |-> <<>>]
      ELSE [line |-> line, err |-> NoErr, rest |-> SubSeq(input, stop + 1, Len(input))]

\* readLine(reader) over the bytes input still to come from the reader, which
\* gives one byte per Read and io.EOF, with no byte, once they are used up
readLine(input) == readLineLoop(input, <<>>)

\* privateKey.Public()
Public(key) == [publicOf |-> key]

\* output.OutputPublicKey(privateKey, format): what is written, the error
OutputPublicKey(privateKey, format) ==
  CASE format = "ssh" ->
         [written |-> <<[kind |-> "ssh public key", key |-> Public(privateKey)]>>,
          err |-> NoErr]
    [] format = "pem" ->
         [written |-> <<[kind |-> "PUBLIC KEY", key |-> Public(privateKey)]>>,
          err |-> NoErr]
    [] OTHER ->
         [written |-> <<>>, err |-> <<"unsupported public key format", format>>]

\* output.OutputPrivateKey(privateKey, format): what is written, the error
OutputPrivateKey(privateKey, format) ==
  CASE format = "ssh" ->
         [written |-> <<[kind |-> "OPENSSH PRIVATE KEY", key |-> privateKey]>>,
          err |-> NoErr]
    [] format = "pem" ->
         IF privateKey.type = "rsa"
         THEN [written |-> <<[kind |-> "RSA PRIVATE KEY", key |-> privateKey]>>,
               err |-> NoErr]
         ELSE IF privateKey.type = "ed25519"
         THEN [written |-> <<[kind |-> "PRIVATE KEY", key |-> privateKey]>>,
               err |-> NoErr]
         ELSE [written |-> <<>>, err |-> <<"unsupported private key type">>]
    [] OTHER ->
         [written |-> <<>>, err |-> <<"unsupported private key format", format>>]

NonEmptyPart(part) == part # <<"">>

\* parseSubject(subj): subj is given split at "/" and each part split at "="
parseSubject(subj) ==
  IF \E k \in 1..Len(subj) : subj[k] # <<"">> /\ Len(subj[k]) # 2
  THEN [name |-> <<>>, err |-> <<"invalid subject part">>]
  ELSE [name |-> SelectSeq(subj, NonEmptyPart), err |-> NoErr]

\* mtls.CreateCACertificate(priv, subj), at time now
CreateCACertificate(priv, subj, now) ==
  [cert |-> [kind |-> "CERTIFICATE", serial |-> 2024, subject |-> subj,
             issuer |-> subj, isCA |-> TRUE, notBefore |-> now,
             key |-> Public(priv), signedWith |-> priv],
   err  |-> NoErr]

\* mtls.SignCertificate(priv, caCertPEM, caPrivKey, subj), at time now
SignCertificate(priv, caCertPEM, caPrivKey, subj, now) ==
  IF caCertPEM # <<"CERT">>
  THEN [cert |-> <<>>, err |-> <<"failed to decode PEM block containing certificate">>]
  ELSE [cert |-> [kind |-> "CERTIFICATE", serial |-> 2024, subject |-> subj,
                  issuer |-> caCertPEM, isCA |-> FALSE, notBefore |-> now,
                  key |-> Public(priv), signedWith |-> caPrivKey],
        err  |-> NoErr]

\* the flags and the environment of a run
Text(str) ==
  CASE str = "" -> <<>>
    [] str = "ssh/a" -> <<"s", "s", "h", "/", "a">>
    [] str = "mtls/ca" -> <<"m", "t", "l", "s", "/", "c", "a">>
    [] str = "ssh/mtls" -> <<"s", "s", "h", "/", "m", "t", "l", "s">>
    [] str = "ssh/" -> <<"s", "s", "h", "/">>
    [] str = "mtls/" -> <<"m", "t", "l", "s", "/">>
    [] str = "pw" -> <<"p", "w">>

FlagContexts == {Text(""), Text("ssh/a"), Text("mtls/ca"), Text("ssh/mtls")}
FlagKeyTypes == {"ed25519", "rsa2048", "rsa8192"}
FlagFormats == {"auto", "pem"}
FlagSalts == {"", "flag-salt"}
EnvSalts == {"", "env-salt"}
FlagActions == {"", "create-ca-cert", "sign-cert"}
FlagCaContexts == {Text(""), Text("mtls/ca")}
\* "" and "/CN=x"
FlagSubjects == {<< <<"">> >>, << <<"">>, <<"CN", "x">> >>}
\* what is typed at a password prompt of the terminal
TypedPasswords == {Text(""), Text("pw")}
\* what is piped to standard input
PipedInputs == {<<>>, <<"LF", "CERT">>, <<"p", "CR", "w", "LF", "CERT">>}
\* what is typed at the terminal up to the end of input
TypedInputs == {<<>>, <<"CERT">>}
Clock == {"t1", "t2"}

InitMain ==
  /\ \E context \in FlagContexts, isPublicKey \in BOOLEAN, keyType \in FlagKeyTypes,
        outputFormat \in FlagFormats, salt \in FlagSalts, envSalt \in EnvSalts,
        action \in FlagActions, caContext \in FlagCaContexts, subj \in FlagSubjects,
        isTerminal \in BOOLEAN :
       \E stdin \in (IF isTerminal THEN {<<>>} ELSE PipedInputs) :
         m = [pc |-> "flags",
              context |-> context, isPublicKey |-> isPublicKey, keyType |-> keyType,
              outputFormat |-> outputFormat, salt |-> salt, envSalt |-> envSalt,
              action |-> action, caContext |-> caContext, subj |-> subj,
              isTerminal |-> isTerminal, piped |-> stdin, stdin |-> stdin,
              password |-> <<>>, finalSalt |-> "", privateKey |-> NilKey,
              format |-> "", caCertBytes |-> <<>>, caPassword |-> <<>>,
              caKey |-> NilKey,
              derived |-> <<>>, stdout |-> <<>>, fatal |-> NoErr,
              asked |-> 0, earlier |-> <<>>]
  /\ calls = [i \in CallIds |-> IdleCall]
  /\ ReaderIdle

\* log.Fatal(...): the message is written to standard error and the run ends
Fatal(msg) == [m EXCEPT !.fatal = msg, !.pc = "exit"]

MainStep(next) ==
  /\ m' = next
  /\ UNCHANGED <<readerVars, calls>>

\* a main that checks the context only and leaves the key type to the
\* derivation
CheckFlags_contextOnly ==
  /\ m.pc = "flags"
  /\ MainStep(IF m.context = <<>>
              THEN Fatal(<<"--context parameter is required">>)
              ELSE [m EXCEPT !.pc = "password"])

\* flag.Parse(); the --context check; the key type check
CheckFlags ==
  /\ m.pc = "flags"
  /\ MainStep(IF m.context = <<>>
              THEN Fatal(<<"--context parameter is required">>)
              ELSE IF ~isValidKeyType(m.keyType)
              THEN Fatal(<<"unsupported key type", m.keyType>>)
              ELSE [m EXCEPT !.pc = "password"])

\* term.ReadPassword on a terminal: the line typed, or an error
ReadPasswordTerminal ==
  /\ m.pc = "password"
  /\ m.isTerminal
  /\ \/ \E typed \in TypedPasswords :
          MainStep([m EXCEPT !.password = typed, !.asked = m.asked + 1,
                             !.pc = "empty"])
     \/ MainStep([Fatal(<<"unable to read password">>)
                   EXCEPT !.asked = m.asked + 1])

\* a password read through a buffered reader, which takes in all of standard
\* input while it looks for the end of the line
ReadPasswordPipe_buffered ==
  /\ m.pc = "password"
  /\ ~m.isTerminal
  /\ LET r == readLine(m.stdin)
     IN  MainStep(IF r.err # NoErr
                  THEN [Fatal(<<"unable to read password", r.err>>)
                          EXCEPT !.stdin = <<>>, !.asked = m.asked + 1]
                  ELSE [m EXCEPT !.password = r.line, !.stdin = <<>>,
                                 !.asked = m.asked + 1, !.pc = "empty"])

\* readLine(os.Stdin) when standard input is not a terminal
ReadPasswordPipe ==
  /\ m.pc = "password"
  /\ ~m.isTerminal
  /\ LET r == readLine(m.stdin)
     IN  MainStep(IF r.err # NoErr
                  THEN [Fatal(<<"unable to read password", r.err>>)
                          EXCEPT !.stdin = r.rest, !.asked = m.asked + 1]
                  ELSE [m EXCEPT !.password = r.line, !.stdin = r.rest,
                                 !.asked = m.asked + 1, !.pc = "empty"])

\* if len(password) == 0 { log.Fatal(...) }
CheckEmpty ==
  /\ m.pc = "empty"
  /\ MainStep(IF Len(m.password) = 0
              THEN Fatal(<<"password cannot be empty">>)
              ELSE [m EXCEPT !.pc = "derive"])

\* a selection that lets the environment win over the flag
SelectSalt_envFirst(salt, envSalt) ==
  IF envSalt # "" THEN envSalt
  ELSE IF salt # "" THEN salt
  ELSE SALT

\* the salt selected from the flag, the environment and the default
SelectSalt(salt, envSalt) ==
  IF salt # "" THEN salt
  ELSE IF envSalt # "" THEN envSalt
  ELSE SALT

\* main after a derivation returned r for the arguments args; the arguments
\* are noted with the salts argon2.IDKey and hkdf.New were given in the call
Derived(args, r, errMsg, keyField, next) ==
  LET note == [password |-> args.password, salt |-> args.salt,
               context |-> args.context, keyType |-> args.keyType,
               stretchSalt |-> r.masterSeed.salt,
               expandSalt |-> r.hkdfReader.id.salt]
      m1   == [m EXCEPT !.finalSalt = args.salt,
                        !.derived = Append(m.derived, note)]
  IN  IF r.retErr # NoErr
      THEN [m1 EXCEPT !.fatal = <<errMsg, r.retErr>>, !.pc = "exit"]
      ELSE [m1 EXCEPT ![keyField] = r.retKey, !.pc = next]

DeriveWith(args, errMsg, keyField, next) ==
  MainStep(Derived(args,
                   DeriveAndGenerateKey(args.password, args.salt, args.context,
                                        args.keyType),
                   errMsg, keyField, next))

\* the salt; privateKey, err := crypto.DeriveAndGenerateKey(...)
DeriveKey ==
  /\ m.pc = "derive"
  /\ DeriveWith([password |-> m.password,
                 salt |-> SelectSalt(m.salt, m.envSalt),
                 context |-> m.context, keyType |-> m.keyType],
                "key generation failed", "privateKey", "output")

\* format := determineOutputFormat(...); the key is written to standard output
OutputKey ==
  /\ m.pc = "output"
  /\ LET format == determineOutputFormat(m.outputFormat, m.context, m.keyType)
         r      == IF m.isPublicKey
                   THEN OutputPublicKey(m.privateKey, format)
                   ELSE OutputPrivateKey(m.privateKey, format)
         m1     == [m EXCEPT !.format = format, !.stdout = m.stdout \o r.written]
     IN  MainStep(IF r.err # NoErr
                  THEN [m1 EXCEPT !.fatal = <<"output failed", r.err>>, !.pc = "exit"]
                  ELSE [m1 EXCEPT !.pc = "action"])

\* switch *action: neither case
NoAction ==
  /\ m.pc = "action"
  /\ m.action \notin {"create-ca-cert", "sign-cert"}
  /\ MainStep([m EXCEPT !.pc = "exit"])

\* case "create-ca-cert"
CreateCaCert ==
  /\ m.pc = "action"
  /\ m.action = "create-ca-cert"
  /\ \E now \in Clock :
       LET subject == parseSubject(m.subj)
           r       == CreateCACertificate(m.privateKey, subject.name, now)
       IN  MainStep(IF m.subj = << <<"">> >>
                    THEN Fatal(<<"--subj is required for creating a CA certificate">>)
                    ELSE IF subject.err # NoErr
                    THEN Fatal(<<"Error parsing subject", subject.err>>)
                    ELSE IF r.err # NoErr
                    THEN Fatal(<<"Error creating CA certificate", r.err>>)
                    ELSE [m EXCEPT !.stdout = Append(m.stdout, r.cert),
                                   !.pc = "exit"])

\* case "sign-cert": the flag checks and caCertBytes, err := io.ReadAll(os.Stdin)
SignCertReadAll ==
  /\ m.pc = "action"
  /\ m.action = "sign-cert"
  /\ \E typed \in (IF m.isTerminal THEN TypedInputs ELSE {m.stdin}) :
       MainStep(IF m.caContext = <<>>
                THEN Fatal(<<"--ca-context is required for signing a certificate">>)
                ELSE IF m.subj = << <<"">> >>
                THEN Fatal(<<"--subj is required for signing a certificate">>)
                ELSE [m EXCEPT !.caCertBytes = typed, !.stdin = <<>>,
                               !.pc = "ca-password"])

\* caPassword, err := term.ReadPassword(int(os.Stdin.Fd())): fails unless
\* standard input is a terminal
ReadCaPassword ==
  /\ m.pc = "ca-password"
  /\ \/ /\ m.isTerminal
        /\ \E typed \in TypedPasswords :
             MainStep([m EXCEPT !.caPassword = typed, !.asked = m.asked + 1,
                                !.pc = "ca-derive"])
     \/ MainStep([Fatal(<<"Error reading CA password">>)
                   EXCEPT !.asked = m.asked + 1])

\* a sign-cert whose CA key has a key type of its own, ed25519
DeriveCaKey_ownKeyType ==
  /\ m.pc = "ca-derive"
  /\ DeriveWith([password |-> m.caPassword, salt |-> m.finalSalt,
                 context |-> m.caContext, keyType |-> "ed25519"],
                "Error deriving CA key", "caKey", "sign")

\* caKey, err := crypto.DeriveAndGenerateKey(caPassword, finalSalt, caContext, keyType)
DeriveCaKey ==
  /\ m.pc = "ca-derive"
  /\ DeriveWith([password |-> m.caPassword, salt |-> m.finalSalt,
                 context |-> m.caContext, keyType |-> m.keyType],
                "Error deriving CA key", "caKey", "sign")

\* parseSubject; mtls.SignCertificate; the certificate is written
SignCert ==
  /\ m.pc = "sign"
  /\ \E now \in Clock :
       LET subject == parseSubject(m.subj)
           r       == SignCertificate(m.privateKey, m.caCertBytes, m.caKey,
                                      subject.name, now)
       IN  MainStep(IF subject.err # NoErr
                    THEN Fatal(<<"Error parsing subject", subject.err>>)
                    ELSE IF r.err # NoErr
                    THEN Fatal(<<"Error signing certificate", r.err>>)
                    ELSE [m EXCEPT !.stdout = Append(m.stdout, r.cert),
                                   !.pc = "exit"])

\* the command that created a CA certificate is given once more, with the
\* same flags, environment and input; what the first run was given as
\* password and what it wrote is kept for comparison
RunAgain ==
  /\ m.pc = "exit"
  /\ m.fatal = NoErr
  /\ m.action = "create-ca-cert"
  /\ m.earlier = <<>>
  /\ MainStep([m EXCEPT !.pc = "flags", !.stdin = m.piped,
                        !.password = <<>>, !.finalSalt = "",
                        !.privateKey = NilKey, !.format = "",
                        !.derived = <<>>, !.stdout = <<>>, !.asked = 0,
                        !.earlier = <<[password |-> m.password,
                                       stdout |-> m.stdout]>>])

NextMain ==
  \/ CheckFlags
  \/ ReadPasswordTerminal
  \/ ReadPasswordPipe
  \/ CheckEmpty
  \/ DeriveKey
  \/ OutputKey
  \/ NoAction
  \/ CreateCaCert
  \/ SignCertReadAll
  \/ ReadCaPassword
  \/ DeriveCaKey
  \/ SignCert
  \/ RunAgain

SpecMain == InitMain /\ [][NextMain]_vars

(***************************************************************************)
(* The text functions of main on their own: containsString on a context    *)
(* and a word, readLine on the bytes of an input.                          *)
(***************************************************************************)
MaxText == 4
MaxWord == 2

\* every text of at most n characters of alphabet
TextsOver(alphabet, n) == UNION {[1..k -> alphabet] : k \in 0..n}

\* contexts: short texts of "s", "h" and "/", and "notssh/x", "x/ssh",
\* "a/ssh/b", "ssh/mtls"
ContextTexts ==
  TextsOver({"s", "h", "/"}, MaxText)
    \cup {<<"n", "o", "t", "s", "s", "h", "/", "x">>,
          <<"x", "/", "s", "s", "h">>,
          <<"a", "/", "s", "s", "h", "/", "b">>,
          <<"s", "s", "h", "/", "m", "t", "l", "s">>}

\* words: non-empty, without "/"
Words ==
  (TextsOver({"s", "h"}, MaxWord) \ {<<>>})
    \cup {<<"s", "s", "h">>, <<"m", "t", "l", "s">>}

\* inputs: short byte sequences with carriage returns and line feeds
InputTexts == TextsOver({"p", "CR", "LF"}, MaxText)

InitText ==
  /\ \/ \E s \in ContextTexts, substr \in Words :
          m = [pc |-> "containsString", s |-> s, substr |-> substr]
     \/ \E input \in InputTexts :
          m = [pc |-> "readLine", input |-> input]
  /\ calls = [i \in CallIds |-> IdleCall]
  /\ ReaderIdle

\* found := containsString(s, substr)
CallContainsString ==
  /\ m.pc = "containsString"
  /\ MainStep([pc |-> "contained", s |-> m.s, substr |-> m.substr,
               found |-> containsString(m.s, m.substr)])

\* line, err := readLine(reader)
CallReadLine ==
  /\ m.pc = "readLine"
  /\ MainStep([pc |-> "line read", input |-> m.input,
               returned |-> readLine(m.input)])

NextText ==
  \/ CallContainsString
  \/ CallReadLine

SpecText == InitText /\ [][NextText]_vars

(***************************************************************************)
(* Claims about the derivation.                                            *)
(***************************************************************************)
Done(i) == calls[i].pc = "done"

SameArguments(i, j) ==
  /\ calls[i].password = calls[j].password
  /\ calls[i].salt = calls[j].salt
  /\ calls[i].context = calls[j].context
  /\ calls[i].keyType = calls[j].keyType

FirstBlock(c) == Block(c.hkdfReader.id, 0, DigestSize)

\* C6: the key type alone selects the entropy path.  ed25519: exactly 32 bytes
\* are read from the HKDF stream and are the seed of the key, no reader is
\* constructed and no RSA generation runs.  rsa2048 / rsa4096: one reader is
\* constructed from the HKDF stream (32 bytes read) and RSA generation runs
\* once with that reader for 2048 / 4096 bits.
C6_Dispatch ==
  \A i \in CallIds :
    Done(i) =>
      LET c == calls[i]
      IN  /\ c.keyType = "ed25519" =>
               /\ c.readers = 0 /\ c.gens = 0
               /\ c.hkdfReader.pos = SeedSize
               /\ c.retKey = [type |-> "ed25519", seed |-> FirstBlock(c)]
          /\ c.keyType \in {"rsa2048", "rsa4096"} =>
               /\ c.readers = 1 /\ c.gens = 1
               /\ c.hkdfReader.pos = DigestSize
               /\ c.readerSeed = FirstBlock(c)
               /\ c.bits = (IF c.keyType = "rsa2048" THEN 2048 ELSE 4096)
               /\ c.retKey.type = "rsa"
               /\ c.retKey.bits = c.bits
               /\ \A n \in 1..2 :
                    /\ Len(c.retKey.primes[n]) = c.bits \div 16
                    /\ \A k \in 1..Len(c.retKey.primes[n]) :
                         c.retKey.primes[n][k][1].seed = c.readerSeed

\* C6 witness: an rsa4096 call returned a 4096-bit key from its reader.
C6_Witness ==
  /\ Done(1)
  /\ calls[1].keyType = "rsa4096"
  /\ calls[1].readers = 1
  /\ calls[1].retKey.type = "rsa"
  /\ calls[1].retKey.bits = 4096

\* C7: context isolation.  With the same password, salt and (supported) key
\* type, two different context strings give different keys.
C7_ContextIsolation ==
  \A i, j \in CallIds :
    (/\ Done(i) /\ Done(j)
     /\ calls[i].password = calls[j].password
     /\ calls[i].salt = calls[j].salt
     /\ calls[i].keyType = calls[j].keyType
     /\ calls[i].keyType \in SupportedKeyTypes
     /\ calls[i].context # calls[j].context) =>
      /\ calls[i].retKey # NilKey
      /\ calls[j].retKey # NilKey
      /\ calls[i].retKey # calls[j].retKey

\* C7 witness: contexts differing in the version suffix only, same password,
\* salt and key type, and two different keys.
C7_Witness ==
  /\ Done(1) /\ Done(2)
  /\ calls[1].password = calls[2].password
  /\ calls[1].salt = calls[2].salt
  /\ calls[1].keyType = "rsa2048" /\ calls[2].keyType = "rsa2048"
  /\ calls[1].context = "ssh/prod/v1" /\ calls[2].context = "ssh/prod/v2"
  /\ calls[1].retKey.type = "rsa"
  /\ calls[1].retKey # calls[2].retKey

\* C8: key-type sensitivity.  For the same password, salt and context, no
\* secret input of the ed25519 generation (the Ed25519 seed) is equal to a
\* secret input of the rsa2048 generation (the seed of its reader).
C8_KeyTypeUnrelated ==
  \A i, j \in CallIds :
    (/\ Done(i) /\ Done(j)
     /\ calls[i].password = calls[j].password
     /\ calls[i].salt = calls[j].salt
     /\ calls[i].context = calls[j].context
     /\ calls[i].keyType = "ed25519"
     /\ calls[j].keyType = "rsa2048") =>
      calls[i].retKey.seed # calls[j].readerSeed

\* C9: an unsupported key type gives the nil key and the unsupported-key-type
\* error naming the type; no key is made on the way.
C9_UnsupportedKeyType ==
  \A i \in CallIds :
    (Done(i) /\ calls[i].keyType \notin {"ed25519", "rsa2048", "rsa4096"}) =>
      /\ calls[i].retKey = NilKey
      /\ calls[i].retErr = <<"unsupported key type", calls[i].keyType>>
      /\ calls[i].privateKey = NilKey
      /\ calls[i].readers = 0 /\ calls[i].gens = 0

\* C9 witness: a call with key type rsa8192 returned the error.
C9_Witness ==
  /\ Done(1)
  /\ calls[1].keyType = "rsa8192"
  /\ calls[1].retKey = NilKey
  /\ calls[1].retErr = <<"unsupported key type", "rsa8192">>

\* C11: validation before cryptographic work.  A call with an unsupported key
\* type has returned its error without argon2.IDKey or hkdf.New having been
\* invoked: it holds no master seed and no HKDF reader.  The code stretches
\* and expands first and looks at the key type afterwards, so a run of Spec
\* violates this.
C11_ValidationFirst ==
  \A i \in CallIds :
    (Done(i) /\ calls[i].keyType \notin SupportedKeyTypes) =>
      /\ calls[i].masterSeed = NoSeed
      /\ calls[i].hkdfReader = NoStream

\* C12: entropy-stream underflow is surfaced.  When the HKDF reader gave fewer
\* than 32 bytes to the construction of the reader of an rsa2048 / rsa4096
\* call, the call ends with an error and no key, and no generation has run on
\* another seed.  newDeterministicReader has no error to return and goes on
\* with its built-in seed, so a run of SpecFaults violates this.
C12_UnderflowSurfaced ==
  \A i \in CallIds :
    (/\ Done(i)
     /\ calls[i].keyType \in {"rsa2048", "rsa4096"}
     /\ calls[i].hkdfReader.limit < SeedSize) =>
      /\ calls[i].retKey = NilKey
      /\ calls[i].retErr # NoErr
      /\ calls[i].gens = 0

\* C13: no retry.  A call runs the generator at most once and constructs at
\* most one reader; when the generator reported an error the call returns
\* the nil key and the error wrapping it.
C13_NoRetry ==
  \A i \in CallIds :
    /\ calls[i].gens <= 1
    /\ calls[i].readers <= 1
    /\ (Done(i) /\ calls[i].gens = 1 /\ calls[i].err # NoErr) =>
         /\ calls[i].retKey = NilKey
         /\ calls[i].retErr =
              <<"unable to generate key", calls[i].keyType, calls[i].err>>

\* C13 witness: an rsa2048 call whose one generator run reported an error
\* has returned the nil key.
C13_Witness ==
  /\ Done(1)
  /\ calls[1].keyType = "rsa2048"
  /\ calls[1].readers = 1 /\ calls[1].gens = 1
  /\ calls[1].err = <<"rsa: generation failed">>
  /\ calls[1].retKey = NilKey

\* the HKDF stream of the arguments of a call
OwnStream(c) ==
  [kdf    |-> "hkdf-sha256",
   secret |-> Argon2IDKey(c.password, c.salt, ArgonTime, ArgonMemory,
                          ArgonThreads, MasterSeedLen),
   salt   |-> c.salt,
   info   |-> c.context]

\* C14: only derived entropy.  On every path, the failing ones included, an
\* Ed25519 key is made of the first 32 bytes of the HKDF stream of the
\* arguments; every byte of an RSA key is a digest byte of a reader whose seed
\* is those 32 bytes or the built-in seed; and a call returns either no key
\* or the key made that way.
C14_OnlyDerivedEntropy ==
  \A i \in CallIds :
    LET c == calls[i]
    IN  /\ c.privateKey.type \in {"nil", "ed25519", "rsa"}
        /\ c.privateKey.type = "ed25519" =>
             c.privateKey.seed = Block(OwnStream(c), 0, SeedSize)
        /\ c.privateKey.type = "rsa" =>
             /\ IF c.readerSeed.src = "literal"
                THEN c.readerSeed = Literal(DefaultSeed, DigestSize)
                ELSE c.readerSeed = Block(OwnStream(c), 0, DigestSize)
             /\ \A n \in 1..2 :
                  \A k \in 1..Len(c.privateKey.primes[n]) :
                    c.privateKey.primes[n][k][1].seed = c.readerSeed
        /\ Done(i) => c.retKey \in {NilKey, c.privateKey}

\* C14 witness: on the path where the upstream read of the constructor
\* failed, an RSA key was returned, made from the built-in seed.
C14_Witness ==
  /\ Done(1)
  /\ calls[1].keyType = "rsa2048"
  /\ calls[1].hkdfReader.limit < SeedSize
  /\ calls[1].retKey.type = "rsa"
  /\ calls[1].readerSeed = Literal(DefaultSeed, DigestSize)

\* what the call returns when it runs alone
Alone(c) == DeriveAndGenerateKey(c.password, c.salt, c.context, c.keyType)

Zeroed(n) == Literal("", n)

\* C15: secret scrubbing.  When a call has returned, on whatever path, its
\* master seed buffer holds zeros and its password buffer no longer holds the
\* password.  The code never writes to either buffer, so a run of Spec
\* violates this.
C15_SecretsScrubbed ==
  \A i \in CallIds :
    Done(i) =>
      /\ calls[i].masterSeed = Zeroed(MasterSeedLen)
      /\ calls[i].password \notin Passwords

(***************************************************************************)
(* Claims about main.                                                      *)
(***************************************************************************)
\* C10: every password that main hands to DeriveAndGenerateKey, for the
\* master derivation and for the CA derivation of the sign-cert action, is
\* non-empty: an empty one is rejected before the call.  main checks the
\* master password only; the CA password read at the terminal goes into the
\* derivation as typed, so a run of SpecMain violates this.
C10_NonEmptyPasswords ==
  \A k \in 1..Len(m.derived) : Len(m.derived[k].password) > 0

\* C17: salt selection.  Every derivation main makes is given the --salt
\* value if it is not empty, else the DETKEY_SALT value if it is not empty,
\* else the 27-character default; Argon2id and HKDF are given that same salt,
\* in the leaf derivation and in the CA derivation.
C17_SaltSelection ==
  LET chosen == IF m.salt # "" THEN m.salt
                ELSE IF m.envSalt # "" THEN m.envSalt
                ELSE "a-unique-salt-for-detkey-v1"
  IN  /\ Len(SALT) = 27
      /\ m.pc # "none" =>
           \A k \in 1..Len(m.derived) :
             /\ m.derived[k].salt = chosen
             /\ m.derived[k].stretchSalt = chosen
             /\ m.derived[k].expandSalt = chosen

\* C17 witness: with --salt and DETKEY_SALT both set, the leaf derivation and
\* the CA derivation of a sign-cert run were both given the --salt value.
C17_Witness ==
  /\ m.pc = "exit"
  /\ m.salt = "flag-salt" /\ m.envSalt = "env-salt"
  /\ Len(m.derived) = 2
  /\ m.derived[1].stretchSalt = "flag-salt"
  /\ m.derived[2].expandSalt = "flag-salt"

\* s begins with prefix
HasPrefix(s, prefix) ==
  Len(s) >= Len(prefix) /\ SubSeq(s, 1, Len(prefix)) = prefix

\* C18: output format selection.  Once main has determined the format: with
\* --format auto a context of the form ssh/* gives ssh, one of the form mtls/*
\* gives pem, and any other context gives pem for the RSA key types and ssh
\* for ed25519; any other --format value is the format.  The code asks for a
\* component "mtls" anywhere in the context before it asks for "ssh", so a
\* run of SpecMain (context ssh/mtls) violates this.
C18_FormatSelection ==
  m.pc \in {"action", "ca-password", "ca-derive", "sign", "exit"}
    /\ m.format # "" =>
      m.format = IF m.outputFormat # "auto" THEN m.outputFormat
                 ELSE IF HasPrefix(m.context, Text("ssh/")) THEN "ssh"
                 ELSE IF HasPrefix(m.context, Text("mtls/")) THEN "pem"
                 ELSE IF m.keyType \in {"rsa2048", "rsa4096"} THEN "pem"
                 ELSE "ssh"

\* C19: certificate only.  A run with --action create-ca-cert or sign-cert
\* that ended without a fatal error has written the certificate to standard
\* output and nothing else, no private key in particular.  main writes the
\* derived key before it looks at the action, so a run of SpecMain violates
\* this.
C19_CertificateOnly ==
  (/\ m.pc = "exit"
   /\ m.fatal = NoErr
   /\ m.action \in {"create-ca-cert", "sign-cert"}) =>
    /\ Len(m.stdout) = 1
    /\ m.stdout[1].kind = "CERTIFICATE"
    /\ \A k \in 1..Len(m.stdout) :
         m.stdout[k].kind \notin
           {"OPENSSH PRIVATE KEY", "RSA PRIVATE KEY", "PRIVATE KEY"}

\* C20: deterministic certificates.  When the create-ca-cert command has run
\* twice with the same flags, environment and password, both times without a
\* fatal error, the two runs wrote the same certificate.  The certificate
\* carries the time of the run, so a run of SpecMain violates this.
C20_SameCertificate ==
  (/\ m.pc = "exit"
   /\ m.fatal = NoErr
   /\ m.action = "create-ca-cert"
   /\ m.earlier # <<>>) =>
    (m.earlier[1].password = m.password =>
       m.stdout[Len(m.stdout)] =
         m.earlier[1].stdout[Len(m.earlier[1].stdout)])

(***************************************************************************)
(* The reader on its own: construction over an upstream stream, then any   *)
(* sequence of Read calls.                                                 *)
(***************************************************************************)
ReaderStreams == {Stream(id, HkdfLimit) : id \in {"okm1", "okm2"}}

\* the reader specification stops asking once this many bytes were returned:
\* enough for the pre-filled buffer and two refills
OutCap == 2 * BufSize + 2 * DigestSize

InitReader ==
  /\ rpc = "new"
  /\ upstream \in ReaderStreams
  /\ dr = NoReader
  /\ out = <<>>
  /\ hashed = <<>>
  /\ requests = <<>>
  /\ lastRead = [n |-> 0, err |-> FALSE, copies |-> <<>>]
  /\ calls = [i \in CallIds |-> IdleCall]
  /\ m = NoMain

\* dr := newDeterministicReader(upstream)
Construct ==
  /\ rpc = "new"
  /\ LET r == newDeterministicReader(upstream)
     IN  /\ dr' = r.dr
         /\ upstream' = r.hkdf
         /\ hashed' = hashed \o r.log
  /\ rpc' = "ready"
  /\ UNCHANGED <<out, requests, lastRead, calls, m>>

\* n, err := dr.Read(p) with len(p) = lenp
DoRead(lenp) ==
  /\ rpc = "ready"
  /\ Len(requests) < MaxReads
  /\ Len(out) + lenp <= OutCap
  /\ LET r == Read(dr, lenp)
     IN  /\ dr' = r.dr
         /\ out' = out \o r.p
         /\ hashed' = hashed \o r.log
         /\ lastRead' = [n |-> r.n, err |-> r.err, copies |-> r.copies]
  /\ requests' = Append(requests, lenp)
  /\ UNCHANGED <<rpc, upstream, calls, m>>

NextReader ==
  \/ Construct
  \/ \E lenp \in ReadSizes : DoRead(lenp)

SpecReader == InitReader /\ [][NextReader]_vars

(***************************************************************************)
(* Claims about the reader.                                                *)
(***************************************************************************)
\* A fresh reader over the same upstream stream (hence with the same seed).
FreshReader == newDeterministicReader(Stream(upstream.id, upstream.limit)).dr

\* C2: read-chunking invariance.  However a total length was split into
\* successive Read calls, the bytes returned, concatenated, are the bytes a
\* single Read of the total length returns on a fresh reader with the same seed.
C2_ChunkingInvariance ==
  rpc = "ready" => out = Read(FreshReader, Len(out)).p

\* C2 witness: 8192 bytes then 1 byte were read (against one Read of 8193).
C2_Witness ==
  /\ requests = <<BufSize, 1>>
  /\ Len(out) = BufSize + 1
  /\ out = Read(FreshReader, BufSize + 1).p

\* C3: the counter is never reset or decreased, every counter value is hashed
\* at most once (the hashed values strictly increase), the bytes returned are
\* the digests in the order they were hashed, each byte once, and the digests
\* not yet returned are exactly the unread rest of the buffer (a refill drops
\* nothing).
C3_DigestsOnceInOrder ==
  /\ [](/\ \A i \in 1..(Len(hashed) - 1) : hashed[i] < hashed[i + 1]
        /\ rpc = "ready" =>
             /\ Len(out) + (BufLen(dr) - dr.bufPos) = Len(hashed) * DigestSize
             /\ \A i \in 1..Len(hashed) :
                  LET digest == Sha256(dr.seed, CounterBytes(hashed[i]))
                      first  == (i - 1) * DigestSize
                  IN  \A j \in 0..(DigestSize - 1) :
                        first + j < Len(out) =>
                          out[first + j + 1] = DigestByte(digest, j))
  /\ [][dr'.counter >= dr.counter]_vars

\* C3 witness: the buffer was refilled twice and bytes of the third filling
\* were returned.
C3_Witness ==
  /\ rpc = "ready"
  /\ Len(hashed) = 3 * (BufSize \div DigestSize)
  /\ Len(out) > 2 * BufSize

\* c >> (8 * i)
RECURSIVE ShiftRight8(_, _)
ShiftRight8(c, i) == IF i = 0 THEN c ELSE ShiftRight8(c \div 256, i - 1)

\* the hash of the seed followed by the little-endian bytes
\* b_i = (c >> 8i) mod 256, i = 0..7, of the counter value c
ReferenceDigest(seed, c) ==
  [seed |-> seed, ctr |-> [i \in 1..8 |-> ShiftRight8(c, i - 1) % 256]]

\* C4: reference stream.  The k-th byte returned (from 0, over all Read calls)
\* is byte k mod 32 of the hash of the seed followed by the 8-byte little-endian
\* encoding of k div 32; the seed is the first 32 bytes of the upstream stream.
C4_ReferenceStream ==
  rpc = "ready" =>
    /\ dr.seed = Block(upstream.id, 0, DigestSize)
    /\ \A c \in 0..((Len(out) + DigestSize - 1) \div DigestSize) - 1 :
         LET digest == ReferenceDigest(dr.seed, c)
         IN  \A j \in 0..(DigestSize - 1) :
               c * DigestSize + j < Len(out) =>
                 out[c * DigestSize + j + 1] = <<digest, j>>

\* C4 witness: bytes of counter values of 256 and more (second encoded byte
\* not zero) were returned.
C4_Witness ==
  /\ rpc = "ready"
  /\ Len(out) > BufSize
  /\ out[Len(out)][1].ctr[2] > 0

\* C5: the upstream stream is read once, at construction, for exactly 32
\* bytes: its cursor is 0 before construction and 32 ever after.
C5_UpstreamReadOnce ==
  upstream.pos = IF rpc = "new" THEN 0 ELSE DigestSize

\* C5 witness: Read calls went through a refill and the cursor is 32.
C5_Witness ==
  /\ rpc = "ready"
  /\ Len(out) > BufSize
  /\ dr.counter > BufSize \div DigestSize
  /\ upstream.pos = DigestSize

\* the sum of the lengths asked of Read so far
RECURSIVE SumOf(_)
SumOf(seq) == IF seq = <<>> THEN 0 ELSE Head(seq) + SumOf(Tail(seq))

\* C21: Read is total and never short.  Every Read call returns n = len(p) and
\* a nil error, the bytes returned so far are as many as were asked for, and
\* every iteration of its loop copies at least one byte (so the loop ends).
C21_ReadNeverShort ==
  rpc = "ready" /\ requests # <<>> =>
    /\ lastRead.n = requests[Len(requests)]
    /\ lastRead.err = FALSE
    /\ Len(out) = SumOf(requests)
    /\ SumOf(lastRead.copies) = lastRead.n
    /\ \A i \in 1..Len(lastRead.copies) : lastRead.copies[i] >= 1

\* C21 witness: a Read of 8193 bytes went round its loop more than once,
\* across a refill, and returned 8193.
C21_Witness ==
  /\ rpc = "ready"
  /\ requests # <<>>
  /\ requests[Len(requests)] = BufSize + 1
  /\ Len(lastRead.copies) >= 2
  /\ lastRead.n = BufSize + 1
  /\ ~lastRead.err

\* C26: after construction and between Read calls, 0 <= bufPos <= 8192, the
\* counter is a positive multiple of 256, and the number of bytes returned so
\* far is (counter / 256 - 1) * 8192 + bufPos.
C26_ReaderAccounting ==
  rpc = "ready" =>
    /\ 0 <= dr.bufPos
    /\ dr.bufPos <= 8192
    /\ dr.counter > 0
    /\ dr.counter % 256 = 0
    /\ Len(out) = (dr.counter \div 256 - 1) * 8192 + dr.bufPos

\* C26 witness: two refills after the pre-fill, the reader partway through
\* the third filling.
C26_Witness ==
  /\ rpc = "ready"
  /\ dr.counter = 3 * 256
  /\ dr.bufPos > 0
  /\ dr.bufPos < 8192
  /\ Len(out) = 2 * 8192 + dr.bufPos

\* C27: a Read call never changes the seed; a Read of zero bytes changes
\* nothing of the reader; a Read refills only when it needs a byte the buffer
\* no longer holds, so one that ends exactly at the end of the buffer leaves
\* bufPos = 8192 and the counter as it was, and the counter advances by 256
\* for each refill a later Read needs and by nothing else.
C27_LazyRefill ==
  [][rpc = "ready" /\ requests' # requests =>
       LET lenp    == requests'[Len(requests')]
           need    == dr.bufPos + lenp
           refills == IF lenp = 0 THEN 0 ELSE (need - 1) \div 8192
       IN  /\ dr'.seed = dr.seed
           /\ lenp = 0 => dr' = dr
           /\ refills = 0 => dr'.buffer = dr.buffer
           /\ dr'.counter = dr.counter + 256 * refills
           /\ dr'.bufPos = need - 8192 * refills
           /\ need = 8192 => dr'.bufPos = 8192 /\ dr'.counter = dr.counter]_vars

\* C27 witness: a Read ended exactly at the end of the pre-filled buffer, a
\* Read of zero bytes followed, and a Read of one byte then refilled once.
C27_Witness ==
  /\ rpc = "ready"
  /\ requests = <<BufSize, 0, 1>>
  /\ dr.counter = 2 * 256
  /\ dr.bufPos = 1

\* C22: on the ed25519 path, when the HKDF reader gave fewer than the 32 seed
\* bytes, the call is over with the nil key and the error that wraps the read
\* failure, and no Ed25519 key was built; an Ed25519 key is only ever built
\* from a seed of 32 bytes read.
C22_SeedReadFailure ==
  \A i \in CallIds :
    LET c == calls[i]
    IN  /\ (/\ c.keyType = "ed25519"
             /\ c.pc \in {"check", "done"}
             /\ c.hkdfReader.limit < SeedSize) =>
              /\ c.pc = "done"
              /\ c.privateKey = NilKey
              /\ c.retKey = NilKey
              /\ c.err # NoErr
              /\ c.retErr = <<"unable to read final seed from HKDF", c.err>>
        /\ c.privateKey.type = "ed25519" => c.privateKey.seed.len = SeedSize
        /\ c.retKey.type = "ed25519" => c.retKey.seed.len = SeedSize

\* C22 witness: an ed25519 call whose HKDF reader ended after 16 bytes has
\* returned the nil key and the wrapped error.
C22_Witness ==
  /\ Done(1)
  /\ calls[1].keyType = "ed25519"
  /\ calls[1].hkdfReader.limit = SeedSize \div 2
  /\ calls[1].hkdfReader.pos = SeedSize \div 2
  /\ calls[1].retKey = NilKey
  /\ calls[1].retErr[1] = "unable to read final seed from HKDF"

\* C23: order of the checks in main.  A run with an empty --context or an
\* unsupported --type ends at the flag checks with the fatal error, before any
\* password was asked for or anything was read from standard input; a run
\* whose master password is empty ends with the fatal error before
\* DeriveAndGenerateKey is called; and in none of the three cases is anything
\* written to standard output.
C23_ChecksBeforeWork ==
  /\ (m.pc \notin {"none", "flags"} /\ m.context = <<>>) =>
        /\ m.pc = "exit"
        /\ m.fatal = <<"--context parameter is required">>
        /\ m.asked = 0 /\ m.stdin = m.piped
        /\ m.derived = <<>> /\ m.stdout = <<>>
  /\ (m.pc \notin {"none", "flags"} /\ m.context # <<>>
       /\ m.keyType \notin SupportedKeyTypes) =>
        /\ m.pc = "exit"
        /\ m.fatal = <<"unsupported key type", m.keyType>>
        /\ m.asked = 0 /\ m.stdin = m.piped
        /\ m.derived = <<>> /\ m.stdout = <<>>
  /\ (m.pc \notin {"none", "flags", "password", "empty"}
       /\ m.asked > 0 /\ Len(m.password) = 0
       /\ (m.fatal = NoErr \/ m.fatal[1] # "unable to read password")) =>
        /\ m.pc = "exit"
        /\ m.fatal = <<"password cannot be empty">>
        /\ m.derived = <<>> /\ m.stdout = <<>>
  /\ m.derived # <<>> => Len(m.derived[1].password) > 0

\* C23 witness: a run given a context, the unsupported type rsa8192 and a
\* piped password has ended at the key type check with its input unread.
C23_Witness ==
  /\ m.pc = "exit"
  /\ m.context # <<>>
  /\ m.keyType = "rsa8192"
  /\ ~m.isTerminal
  /\ m.piped # <<>> /\ m.stdin = m.piped
  /\ m.fatal = <<"unsupported key type", "rsa8192">>
  /\ m.stdout = <<>>

\* word is one of the "/"-delimited segments of s
IsSegment(s, word) ==
  \E i \in 1..(Len(s) + 1), j \in 0..Len(s) :
    /\ SubSeq(s, i, j) = word
    /\ i = 1 \/ s[i - 1] = "/"
    /\ j = Len(s) \/ s[j + 1] = "/"

NotCR(b) == b # "CR"

\* C30: readLine returns the bytes before the first line feed of the input
\* with every carriage return removed and leaves unread all that follows that
\* line feed; when the input ends without a line feed it returns the bytes
\* gathered if there is one that is not a carriage return, and otherwise an
\* error and the empty string.
C30_ReadLine ==
  m.pc = "line read" =>
    LET ends == {k \in 1..Len(m.input) : m.input[k] = "LF"}
        r    == m.returned
    IN  IF ends # {}
        THEN LET first == CHOOSE k \in ends : \A j \in ends : k <= j
             IN  /\ r.err = NoErr
                 /\ r.line = SelectSeq(SubSeq(m.input, 1, first - 1), NotCR)
                 /\ r.rest = SubSeq(m.input, first + 1, Len(m.input))
        ELSE IF SelectSeq(m.input, NotCR) # <<>>
             THEN r.err = NoErr /\ r.line = SelectSeq(m.input, NotCR)
             ELSE r.err # NoErr /\ r.line = <<>>

\* C30 witness: readLine was given a carriage return, "p", a line feed and
\* "p"; it returned "p" and left the last byte unread.
C30_Witness ==
  /\ m.pc = "line read"
  /\ m.input = <<"CR", "p", "LF", "p">>
  /\ m.returned.line = <<"p">>
  /\ m.returned.err = NoErr
  /\ m.returned.rest = <<"p">>

\* the 32 bytes a call generated its key from: the Ed25519 seed, or the seed
\* of the reader given to the RSA generator
GenerationSeed(c) ==
  IF c.keyType = "ed25519" THEN c.retKey.seed ELSE c.readerSeed

\* the first n bytes of the stream of a reader constructed on the HKDF stream
\* of a call
ReaderStream(c, n) ==
  Read(newDeterministicReader(Stream(c.hkdfReader.id, c.hkdfReader.limit)).dr, n).p

\* the bytes [from, from + len) of a byte sequence
Slice(bytes, from, len) == SubSeq(bytes, from + 1, from + len)

\* C25: the key type is no input of the stretching or of the expansion.  Two
\* calls with the same password, salt and context and supported key types have
\* the same master seed and the same HKDF stream, and each generated its key
\* from the first 32 bytes of that stream (as Ed25519 seed or as seed of the
\* reader); the primes of an rsa2048 key and of an rsa4096 key are cut, at
\* their own offsets, from one and the same reader stream.
C25_KeyTypeNotDerived ==
  \A i, j \in CallIds :
    (/\ Done(i) /\ Done(j)
     /\ calls[i].password = calls[j].password
     /\ calls[i].salt = calls[j].salt
     /\ calls[i].context = calls[j].context
     /\ calls[i].keyType \in SupportedKeyTypes
     /\ calls[j].keyType \in SupportedKeyTypes) =>
      /\ calls[i].masterSeed = calls[j].masterSeed
      /\ calls[i].hkdfReader.id = calls[j].hkdfReader.id
      /\ GenerationSeed(calls[i]) = Block(calls[j].hkdfReader.id, 0, SeedSize)
      /\ GenerationSeed(calls[i]) = GenerationSeed(calls[j])
      /\ (calls[i].keyType = "rsa2048" /\ calls[j].keyType = "rsa4096") =>
           LET stream == ReaderStream(calls[i], calls[j].served)
           IN  /\ calls[i].served = 2 * (Rejects + 1) * 128
               /\ calls[j].served = 2 * (Rejects + 1) * 256
               /\ calls[i].retKey.primes =
                    <<Slice(stream, Rejects * 128, 128),
                      Slice(stream, (2 * Rejects + 1) * 128, 128)>>
               /\ calls[j].retKey.primes =
                    <<Slice(stream, Rejects * 256, 256),
                      Slice(stream, (2 * Rejects + 1) * 256, 256)>>

\* C25 witness: an rsa2048 call and an rsa4096 call with the same password,
\* salt and context have returned keys, from readers with the same seed.
C25_Witness ==
  /\ Done(1) /\ Done(2)
  /\ calls[1].password = calls[2].password
  /\ calls[1].salt = calls[2].salt
  /\ calls[1].context = calls[2].context
  /\ calls[1].keyType = "rsa2048" /\ calls[2].keyType = "rsa4096"
  /\ calls[1].retKey.type = "rsa" /\ calls[2].retKey.type = "rsa"
  /\ calls[1].readerSeed = calls[2].readerSeed
  /\ calls[1].retKey # calls[2].retKey

\* the salts a run can end up with, the key types main accepts among the
\* flags of the model, the passwords main accepts
FinalSalts == {SelectSalt(salt, envSalt) : salt \in FlagSalts, envSalt \in EnvSalts}
AcceptedKeyTypes == {t \in FlagKeyTypes : isValidKeyType(t)}
AcceptedPasswords == {pw \in TypedPasswords : Len(pw) > 0}

\* C28: in sign-cert the CA key is DeriveAndGenerateKey(caPassword, salt,
\* ca-context, type) with the salt and the --type of the leaf key, and it is
\* the key a create-ca-cert run certified for that context only if that run
\* had the same password, the same salt and the same --type.
C28_CaKeyDerivation ==
  m.pc \in {"sign", "exit"} /\ m.caKey # NilKey =>
    LET salt == SelectSalt(m.salt, m.envSalt)
    IN  /\ Len(m.derived) = 2
        /\ m.derived[1].salt = salt
        /\ m.derived[1].keyType = m.keyType
        /\ m.derived[2] = [password |-> m.caPassword, salt |-> salt,
                           context |-> m.caContext, keyType |-> m.keyType,
                           stretchSalt |-> salt, expandSalt |-> salt]
        /\ m.caKey =
             DeriveAndGenerateKey(m.caPassword, salt, m.caContext, m.keyType).retKey
        /\ \A password \in AcceptedPasswords, createSalt \in FinalSalts,
              keyType \in AcceptedKeyTypes :
             DeriveAndGenerateKey(password, createSalt, m.caContext,
                                  keyType).retKey = m.caKey
               => /\ password = m.caPassword
                  /\ createSalt = salt
                  /\ keyType = m.keyType

\* C28 witness: a sign-cert run for an rsa2048 leaf key with --salt given has
\* derived an RSA key as CA key and written the certificate.
C28_Witness ==
  /\ m.pc = "exit"
  /\ m.action = "sign-cert"
  /\ m.fatal = NoErr
  /\ m.keyType = "rsa2048"
  /\ m.salt = "flag-salt"
  /\ m.caPassword = Text("pw")
  /\ m.caKey.type = "rsa"
  /\ m.caKey # m.privateKey
  /\ Len(m.stdout) = 2

\* the place of the first line feed of input, or one past its end
FirstLineEnd(input) ==
  LET ends == {k \in 1..Len(input) : input[k] = "LF"}
  IN  IF ends = {} THEN Len(input) + 1
      ELSE CHOOSE k \in ends : \A j \in ends : k <= j

=============================================================================
